---------------------------- MODULE Spec2Model ----------------------------
(***************************************************************************)
(* A model of txtchecker.py: the concurrent domain-probing engine.        *)
(*                                                                         *)
(* Threads: the main thread (main, and signal_handler, which Python runs   *)
(* in the main thread), the pool's worker threads (one task per word in   *)
(* list mode, args.workers endless tasks in auto mode) and the progress   *)
(* thread (update_domain_count).  Shared state: stop_event, domain_count, *)
(* successful_domains.  A TXT string is a sequence of one-character       *)
(* strings, so that str.strip() is computed and not assumed.              *)
(***************************************************************************)
EXTENDS Naturals, Sequences, FiniteSets

(* ------------------------------ bounds -------------------------------- *)

\* auto mode: a worker starts a new random batch only below this count
MaxCount == 2
\* SIGINTs delivered in one run
MaxSigints == 2

(* --------------------------- inputs of a run -------------------------- *)

\* --tlds, in order (the default list has four; two are kept)
tlds == <<".com", ".se">>

\* load_words(args.list): the word list of list mode
words == <<"acme", "foo">>

\* the labels random.choices can give on line 113 (3 to 8 lowercase letters);
\* one is kept
random_labels == <<"acme">>

\* -w values tried (the default is 10)
WorkerArgs == {1, 2}

\* -t values tried; 0 stands for no -t (None and 0 are both false on line 241)
TimeArgs == {0, 2}

\* args.txt
txt_record_to_check == <<"v", " ", "a">>

(* ----------------------------- the DNS side --------------------------- *)

\* resolver.resolve(domain, 'TXT') either raises or returns a sequence of
\* rdata, each with .strings, a sequence of character strings
NoRecord == [raises |-> "NXDOMAIN", answers |-> << >>]
Broken   == [raises |-> "other", answers |-> << >>]
Exact    == [raises |-> "", answers |-> << << txt_record_to_check >> >>]
Padded   == [raises |-> "", answers |-> << << <<" ", "v", " ", "a", " ">> >> >>]
Upper    == [raises |-> "", answers |-> << << <<"V", " ", "a">> >> >>]
Spaced   == [raises |-> "", answers |-> << << <<"v", " ", " ", "a">> >> >>]
Split    == [raises |-> "", answers |-> << << <<"v">>, <<" ", "a">> >> >>]
Second   == [raises |-> "", answers |-> << << <<"x">> >>, << txt_record_to_check >> >>]

Domains == {words[i] \o tlds[j] : i \in 1..Len(words), j \in 1..Len(tlds)}

\* the zones tried: what the nameserver holds for each candidate
Zones ==
  { [d \in Domains |-> NoRecord],
    [d \in Domains |-> IF d = "acme.se" THEN Exact ELSE NoRecord],
    [d \in Domains |-> IF d = "acme.se" THEN Padded
                       ELSE IF d = "foo.com" THEN Second
                       ELSE IF d = "acme.com" THEN Upper ELSE Spaced],
    [d \in Domains |-> IF d = "acme.com" THEN Broken
                       ELSE IF d = "foo.se" THEN Exact
                       ELSE IF d = "foo.com" THEN Split ELSE NoRecord] }

(* --------------------------- pure functions --------------------------- *)

IsSpace(c) == c = " "

RECURSIVE lstrip(_)
lstrip(s) == IF s # << >> /\ IsSpace(Head(s)) THEN lstrip(Tail(s)) ELSE s

RECURSIVE rstrip(_)
rstrip(s) ==
  IF s # << >> /\ IsSpace(s[Len(s)]) THEN rstrip(SubSeq(s, 1, Len(s) - 1)) ELSE s

\* lstrip() where strip() was meant
strip_left_only(s) == lstrip(s)

\* str.strip()
strip(s) == rstrip(lstrip(s))

RECURSIVE Flatten(_)
Flatten(ss) == IF ss = << >> THEN << >> ELSE Head(ss) \o Flatten(Tail(ss))

\* the list built from the far end of tlds
generate_domains_reversed(word, ts) ==
  [j \in 1..Len(ts) |-> word \o ts[Len(ts) + 1 - j]]

\* generate_domains(word, tlds) and the list of generate_random_domain
generate_domains(word, ts) == [j \in 1..Len(ts) |-> word \o ts[j]]

\* the exceptions line 125 catches
Caught == {"NoAnswer", "NXDOMAIN", "Timeout", "NoNameservers"}

\* whether fetch_txt_records lets the exception of resolver.resolve through
Uncaught(reply) == reply.raises # "" /\ reply.raises \notin Caught

\* fetch_txt_records when it returns: [] for a caught exception, else one
\* string per character string of each rdata, in order
fetch_txt_records(reply) ==
  IF reply.raises \in Caught THEN << >> ELSE Flatten(reply.answers)

\* the loop of check_txt, lines 134-139: some record, stripped, is the target
HasTarget(txt_records) ==
  \E k \in 1..Len(txt_records) : strip(txt_records[k]) = txt_record_to_check

(* ------------------------------- state -------------------------------- *)

VARIABLES
  args_auto,           \* -a given (else -l)
  args_time,           \* -t, 0 for none
  args_workers,        \* -w
  zone,                \* what the nameserver answers, per domain
  stop_event,          \* line 19
  domain_count,        \* line 20
  successful_domains,  \* line 21
  time_up,             \* (time.time() - start_time) > args.time
  main_pc,             \* where the main thread is
  yielded,             \* futures as_completed has handed to the loop
  found_any,           \* line 193
  t_pc,                \* per task: where it is
  t_word,              \* per task: the word of its current domains list
  t_idx,               \* per task: index of the for loop in domains
  t_tmp,               \* per task: the value domain_count += 1 has loaded
  probed,              \* per task: the domains of its list it has queried
  queries,             \* DNS queries issued so far, by all tasks
  late,                \* per task: queries it issued with stop_event set
  count_pc,            \* where the progress thread is
  sigints,             \* SIGINTs delivered
  sink_runs,           \* calls of print_final_output
  out_file             \* successful_domains.txt: whether it exists, its lines

vars ==
  << args_auto, args_time, args_workers, zone, stop_event, domain_count,
     successful_domains, time_up, main_pc, yielded, found_any, t_pc, t_word,
     t_idx, t_tmp, probed, queries, late, count_pc, sigints, sink_runs,
     out_file >>

\* the output file of line 184, absent or with the given lines
NoFile == [exists |-> FALSE, lines |-> << >>]
File(ls) == [exists |-> TRUE, lines |-> ls]

\* every task a run can have: one per word, or one per worker
TaskIds == 1..Len(words) \cup UNION {1..w : w \in WorkerArgs}

\* the futures of this run (lines 236 and 249)
Futures == IF args_auto THEN 1..args_workers ELSE 1..Len(words)

Init ==
  /\ args_auto \in BOOLEAN
  /\ args_time \in (IF args_auto THEN TimeArgs ELSE {0})
  /\ args_workers \in WorkerArgs
  /\ zone \in Zones
  /\ stop_event = FALSE
  /\ domain_count = 0
  /\ successful_domains = << >>
  /\ time_up = FALSE
  /\ main_pc = "start"
  /\ yielded = {}
  /\ found_any = FALSE
  /\ t_pc = [t \in TaskIds |-> "none"]
  /\ t_word = [t \in TaskIds |-> ""]
  /\ t_idx = [t \in TaskIds |-> 0]
  /\ t_tmp = [t \in TaskIds |-> 0]
  /\ probed = [t \in TaskIds |-> << >>]
  /\ queries = 0
  /\ late = [t \in TaskIds |-> 0]
  /\ count_pc = "none"
  /\ sigints = 0
  /\ sink_runs = 0
  /\ out_file \in {NoFile, File(<<"old.dk">>)}

(* ------------------------------ helpers ------------------------------- *)

\* a stop check that reads a flag nobody sets
is_set_stale == FALSE

\* stop_event.is_set()
is_set == stop_event

\* a task whose function has returned or raised: its future is done
Finished(t) == t_pc[t] \in {"done", "failed"}

\* a task a pool thread is running
Running(t) == t_pc[t] \notin {"none", "queued", "done", "failed"}

\* domains of the task's current list (lines 145 and 157)
domains(t) == generate_domains(t_word[t], tlds)

\* print_final_output with the open of line 184 outside the if
print_final_output_unconditional == File(successful_domains)

\* print_final_output, lines 183-189: the file after the call
print_final_output ==
  IF successful_domains # << >> THEN File(successful_domains) ELSE out_file

main_vars == << main_pc, yielded, found_any >>
task_vars == << t_pc, t_word, t_idx, t_tmp, probed, queries, late >>
args_vars == << args_auto, args_time, args_workers, zone >>
sink_vars == << sigints, sink_runs, out_file >>

(* ------------------------- the pool's tasks --------------------------- *)

\* a pool thread takes a queued work item: at most args.workers threads
TaskStart(t) ==
  /\ t_pc[t] = "queued"
  /\ Cardinality({u \in TaskIds : Running(u)}) < args_workers
  /\ IF args_auto
       THEN /\ t_pc' = [t_pc EXCEPT ![t] = "while"]
            /\ UNCHANGED << t_word, t_idx >>
       ELSE /\ t_pc' = [t_pc EXCEPT ![t] = "for"]
            /\ t_word' = [t_word EXCEPT ![t] = words[t]]
            /\ t_idx' = [t_idx EXCEPT ![t] = 1]
  /\ UNCHANGED << t_tmp, probed, queries, late, args_vars, main_vars, sink_vars,
                  stop_event, domain_count, successful_domains, time_up,
                  count_pc >>

\* check_domains, lines 144-145: leave the loop, or draw the next label
TaskWhile(t) ==
  /\ t_pc[t] = "while"
  /\ IF is_set
       THEN /\ t_pc' = [t_pc EXCEPT ![t] = "done"]
            /\ UNCHANGED << t_word, t_idx, probed >>
       ELSE /\ domain_count < MaxCount
            /\ \E i \in 1..Len(random_labels) :
                 t_word' = [t_word EXCEPT ![t] = random_labels[i]]
            /\ t_idx' = [t_idx EXCEPT ![t] = 1]
            /\ probed' = [probed EXCEPT ![t] = << >>]
            /\ t_pc' = [t_pc EXCEPT ![t] = "for"]
  /\ UNCHANGED << t_tmp, queries, late, args_vars, main_vars, sink_vars,
                  stop_event, domain_count, successful_domains, time_up,
                  count_pc >>

\* where a task goes when its for loop ends or breaks
AfterFor == IF args_auto THEN "while" ELSE "done"

\* the for loop leaving out the last domain of the list
TaskFor_short(t) ==
  /\ t_pc[t] = "for"
  /\ t_pc' = [t_pc EXCEPT ![t] =
                IF t_idx[t] >= Len(domains(t)) \/ is_set THEN AfterFor
                ELSE "load"]
  /\ UNCHANGED << t_word, t_idx, t_tmp, probed, queries, late, args_vars, main_vars,
                  sink_vars, stop_event, domain_count, successful_domains,
                  time_up, count_pc >>

\* lines 146-148 and 158-160: next domain, or the end of the list, or break
TaskFor(t) ==
  /\ t_pc[t] = "for"
  /\ t_pc' = [t_pc EXCEPT ![t] =
                IF t_idx[t] > Len(domains(t)) \/ is_set THEN AfterFor
                ELSE "load"]
  /\ UNCHANGED << t_word, t_idx, t_tmp, probed, queries, late, args_vars, main_vars,
                  sink_vars, stop_event, domain_count, successful_domains,
                  time_up, count_pc >>

\* domain_count += 1, lines 149 and 161: the load of the global
TaskLoad(t) ==
  /\ t_pc[t] = "load"
  /\ t_tmp' = [t_tmp EXCEPT ![t] = domain_count]
  /\ t_pc' = [t_pc EXCEPT ![t] = "store"]
  /\ UNCHANGED << t_word, t_idx, probed, queries, late, args_vars, main_vars,
                  sink_vars, stop_event, domain_count, successful_domains,
                  time_up, count_pc >>

\* domain_count += 1: the store of the sum
TaskStore(t) ==
  /\ t_pc[t] = "store"
  /\ domain_count' = t_tmp[t] + 1
  /\ t_pc' = [t_pc EXCEPT ![t] = "check_txt"]
  /\ UNCHANGED << t_word, t_idx, t_tmp, probed, queries, late, args_vars, main_vars,
                  sink_vars, stop_event, successful_domains, time_up, count_pc >>

\* check_txt, lines 131-132: return False when stopped
TaskCheckTxt(t) ==
  /\ t_pc[t] = "check_txt"
  /\ IF is_set
       THEN /\ t_pc' = [t_pc EXCEPT ![t] = "for"]
            /\ t_idx' = [t_idx EXCEPT ![t] = @ + 1]
       ELSE /\ t_pc' = [t_pc EXCEPT ![t] = "fetch"]
            /\ UNCHANGED t_idx
  /\ UNCHANGED << t_word, t_tmp, probed, queries, late, args_vars, main_vars,
                  sink_vars, stop_event, domain_count, successful_domains,
                  time_up, count_pc >>

\* check_txt, lines 133-139: the query and the scan of its records; an
\* exception line 125 does not catch ends the task
TaskFetch(t) ==
  /\ t_pc[t] = "fetch"
  /\ LET domain == domains(t)[t_idx[t]]
         reply == zone[domain]
     IN  /\ probed' = [probed EXCEPT ![t] = Append(@, domain)]
         /\ queries' = queries + 1
         /\ late' = [late EXCEPT ![t] = IF stop_event THEN @ + 1 ELSE @]
         /\ IF Uncaught(reply)
              THEN /\ t_pc' = [t_pc EXCEPT ![t] = "failed"]
                   /\ UNCHANGED << t_idx, successful_domains >>
              ELSE IF HasTarget(fetch_txt_records(reply))
                THEN /\ successful_domains' = Append(successful_domains, domain)
                     /\ t_pc' = [t_pc EXCEPT ![t] = "append"]
                     /\ UNCHANGED t_idx
                ELSE /\ t_pc' = [t_pc EXCEPT ![t] = "for"]
                     /\ t_idx' = [t_idx EXCEPT ![t] = @ + 1]
                     /\ UNCHANGED successful_domains
  /\ UNCHANGED << t_word, t_tmp, args_vars, main_vars, sink_vars, stop_event,
                  domain_count, time_up, count_pc >>

\* lines 150-151 and 162-163: check_txt returned True
TaskAppend(t) ==
  /\ t_pc[t] = "append"
  /\ successful_domains' = Append(successful_domains, domains(t)[t_idx[t]])
  /\ t_pc' = [t_pc EXCEPT ![t] = "for"]
  /\ t_idx' = [t_idx EXCEPT ![t] = @ + 1]
  /\ UNCHANGED << t_word, t_tmp, probed, queries, late, args_vars, main_vars,
                  sink_vars, stop_event, domain_count, time_up, count_pc >>

(* --------------------------- the main thread -------------------------- *)

\* lines 231-232: the progress thread starts
MainStartCount ==
  /\ main_pc = "start"
  /\ count_pc' = "check"
  /\ main_pc' = "submit"
  /\ UNCHANGED << yielded, found_any, task_vars, args_vars, sink_vars,
                  stop_event, domain_count, successful_domains, time_up >>

\* lines 236 and 249: one future per worker, or one per word
MainSubmit ==
  /\ main_pc = "submit"
  /\ t_pc' = [t \in TaskIds |-> IF t \in Futures THEN "queued" ELSE t_pc[t]]
  /\ main_pc' = "wait"
  /\ UNCHANGED << yielded, found_any, t_word, t_idx, t_tmp, probed, queries,
                  late, args_vars, sink_vars, stop_event, domain_count,
                  successful_domains, time_up, count_pc >>

\* the loop of lines 251-260 without its try: the exception future.result()
\* re-raises leaves main through the with block, past line 267
MainNext_uncaught ==
  /\ main_pc = "wait"
  /\ \E f \in Futures \ yielded :
       /\ Finished(f)
       /\ yielded' = yielded \cup {f}
       /\ IF is_set
            THEN /\ main_pc' = "shutdown"
                 /\ UNCHANGED << stop_event, found_any >>
            ELSE IF args_auto
              THEN IF args_time # 0 /\ time_up
                     THEN /\ stop_event' = TRUE
                          /\ main_pc' = "shutdown"
                          /\ UNCHANGED found_any
                     ELSE UNCHANGED << main_pc, stop_event, found_any >>
              ELSE IF t_pc[f] = "failed"
                THEN /\ main_pc' = "unwind"
                     /\ UNCHANGED << stop_event, found_any >>
                ELSE /\ found_any' = (found_any \/ successful_domains # << >>)
                     /\ UNCHANGED << main_pc, stop_event >>
  /\ UNCHANGED << task_vars, args_vars, sink_vars, domain_count,
                  successful_domains, time_up, count_pc >>

\* lines 238-243 and 251-260: as_completed hands over a done future and the
\* loop body runs; future.result() is the list check_domains_from_word
\* returned, which is successful_domains itself
MainNext ==
  /\ main_pc = "wait"
  /\ \E f \in Futures \ yielded :
       /\ Finished(f)
       /\ yielded' = yielded \cup {f}
       /\ IF is_set
            THEN /\ main_pc' = "shutdown"
                 /\ UNCHANGED << stop_event, found_any >>
            ELSE IF args_auto
              THEN IF args_time # 0 /\ time_up
                     THEN /\ stop_event' = TRUE
                          /\ main_pc' = "shutdown"
                          /\ UNCHANGED found_any
                     ELSE UNCHANGED << main_pc, stop_event, found_any >>
              ELSE /\ found_any' =
                        (found_any \/ (t_pc[f] = "done" /\ successful_domains # << >>))
                   /\ UNCHANGED << main_pc, stop_event >>
  /\ UNCHANGED << task_vars, args_vars, sink_vars, domain_count,
                  successful_domains, time_up, count_pc >>

\* as_completed has handed over every future: the loop ends
MainLoopEnd ==
  /\ main_pc = "wait"
  /\ yielded = Futures
  /\ main_pc' = "shutdown"
  /\ UNCHANGED << yielded, found_any, task_vars, args_vars, sink_vars,
                  stop_event, domain_count, successful_domains, time_up, count_pc >>

\* the with block ends: executor.shutdown(wait=True) joins the pool threads
MainShutdown ==
  /\ main_pc = "shutdown"
  /\ \A t \in Futures : Finished(t)
  /\ main_pc' = "set_stop"
  /\ UNCHANGED << yielded, found_any, task_vars, args_vars, sink_vars,
                  stop_event, domain_count, successful_domains, time_up, count_pc >>

\* line 264 with clear() for set()
MainSetStop_clear ==
  /\ main_pc = "set_stop"
  /\ stop_event' = FALSE
  /\ main_pc' = "join"
  /\ UNCHANGED << yielded, found_any, task_vars, args_vars, sink_vars,
                  domain_count, successful_domains, time_up, count_pc >>

\* line 264
MainSetStop ==
  /\ main_pc = "set_stop"
  /\ stop_event' = TRUE
  /\ main_pc' = "join"
  /\ UNCHANGED << yielded, found_any, task_vars, args_vars, sink_vars,
                  domain_count, successful_domains, time_up, count_pc >>

\* line 265
MainJoin ==
  /\ main_pc = "join"
  /\ count_pc = "done"
  /\ main_pc' = "sink"
  /\ UNCHANGED << yielded, found_any, task_vars, args_vars, sink_vars,
                  stop_event, domain_count, successful_domains, time_up, count_pc >>

\* line 267
MainSink ==
  /\ main_pc = "sink"
  /\ sink_runs' = sink_runs + 1
  /\ out_file' = print_final_output
  /\ main_pc' = "returned"
  /\ UNCHANGED << yielded, found_any, task_vars, args_vars, sigints,
                  stop_event, domain_count, successful_domains, time_up, count_pc >>

\* main returns to line 271
MainReturn ==
  /\ main_pc = "returned"
  /\ main_pc' = "finalize"
  /\ UNCHANGED << yielded, found_any, task_vars, args_vars, sink_vars,
                  stop_event, domain_count, successful_domains, time_up, count_pc >>

\* SystemExit leaves the with block: executor.shutdown(wait=True), then the
\* exception goes on to line 272
MainUnwind ==
  /\ main_pc = "unwind"
  /\ \A t \in Futures : Finished(t) \/ t_pc[t] = "none"
  /\ main_pc' = "finalize"
  /\ UNCHANGED << yielded, found_any, task_vars, args_vars, sink_vars,
                  stop_event, domain_count, successful_domains, time_up, count_pc >>

\* the interpreter waits for its threads and the process ends
ProcessExit ==
  /\ main_pc = "finalize"
  /\ \A t \in TaskIds : ~Running(t) /\ t_pc[t] # "queued"
  /\ count_pc \in {"none", "done"}
  /\ main_pc' = "exited"
  /\ UNCHANGED << yielded, found_any, task_vars, args_vars, sink_vars,
                  stop_event, domain_count, successful_domains, time_up, count_pc >>

\* where SystemExit, raised by line 170, takes the main thread: inside the
\* with block the pool is shut down first, elsewhere main is left at once
AfterExit(pc) == IF pc \in {"submit", "wait"} THEN "unwind" ELSE "finalize"

\* signal_handler, lines 166-170, run by the main thread wherever it is; with
\* it installed (line 221) no KeyboardInterrupt reaches lines 244 and 261
signal_handler ==
  /\ main_pc \notin {"finalize", "exited"}
  /\ sigints < MaxSigints
  /\ sigints' = sigints + 1
  /\ stop_event' = TRUE
  /\ sink_runs' = sink_runs + 1
  /\ out_file' = print_final_output
  /\ main_pc' = AfterExit(main_pc)
  /\ UNCHANGED << yielded, found_any, task_vars, args_vars, domain_count,
                  successful_domains, time_up, count_pc >>

(* ------------------------- the progress thread ------------------------ *)

\* update_domain_count, line 174
\* line 174 without its not
CountCheck_inverted ==
  /\ count_pc = "check"
  /\ count_pc' = IF is_set THEN "render" ELSE "done"
  /\ UNCHANGED << main_vars, task_vars, args_vars, sink_vars, stop_event,
                  domain_count, successful_domains, time_up >>

CountCheck ==
  /\ count_pc = "check"
  /\ count_pc' = IF is_set THEN "done" ELSE "render"
  /\ UNCHANGED << main_vars, task_vars, args_vars, sink_vars, stop_event,
                  domain_count, successful_domains, time_up >>

\* lines 175-178: one render, then the sleep
CountRender ==
  /\ count_pc = "render"
  /\ count_pc' = "check"
  /\ UNCHANGED << main_vars, task_vars, args_vars, sink_vars, stop_event,
                  domain_count, successful_domains, time_up >>

(* ------------------------------ the clock ----------------------------- *)

\* the clock passes start_time + args.time; it is followed only when
\* line 241 reads it
Tick ==
  /\ args_auto /\ args_time # 0
  /\ ~time_up
  /\ main_pc # "exited"
  /\ time_up' = TRUE
  /\ UNCHANGED << main_vars, task_vars, args_vars, sink_vars, stop_event,
                  domain_count, successful_domains, count_pc >>

(* --------------------------- specifications --------------------------- *)

TaskStep(t) ==
  \/ TaskStart(t)
  \/ TaskWhile(t)
  \/ TaskFor(t)
  \/ TaskLoad(t)
  \/ TaskStore(t)
  \/ TaskCheckTxt(t)
  \/ TaskFetch(t)
  \/ TaskAppend(t)

MainStep ==
  \/ MainStartCount
  \/ MainSubmit
  \/ MainNext
  \/ MainLoopEnd
  \/ MainShutdown
  \/ MainSetStop
  \/ MainJoin
  \/ MainSink
  \/ MainReturn
  \/ MainUnwind
  \/ ProcessExit

CountStep == CountCheck \/ CountRender

Next ==
  \/ MainStep
  \/ signal_handler
  \/ \E t \in TaskIds : TaskStep(t)
  \/ CountStep
  \/ Tick

Spec == Init /\ [][Next]_vars

\* the scheduling the interpreter and the OS give: a thread that can run
\* does run, and the clock goes on; nobody has to press Ctrl-C
Fairness ==
  /\ WF_vars(MainStep)
  /\ \A t \in TaskIds : WF_vars(TaskStep(t))
  /\ WF_vars(CountStep)
  /\ WF_vars(Tick)

FairSpec == Init /\ [][Next]_vars /\ Fairness

(* ------------------------------ properties ---------------------------- *)

AnyFailed == \E t \in TaskIds : t_pc[t] = "failed"

AllReturned == main_pc \notin {"start", "submit"} /\ \A t \in Futures : Finished(t)

RECURSIVE Occurrences(_, _)
Occurrences(seq, x) ==
  IF seq = << >> THEN 0
  ELSE (IF Head(seq) = x THEN 1 ELSE 0) + Occurrences(Tail(seq), x)

\* a domain whose reply holds a one-string record that is the target once
\* stripped
Carries(d) == ~Uncaught(zone[d]) /\ HasTarget(fetch_txt_records(zone[d]))

\* C1: an auto run with a time bound, never interrupted and with no worker
\* failing, ends: stop is set, every worker has returned, the sink has run
\* and the process is gone.
C1_TimedRunTerminates ==
  (args_auto /\ args_time # 0) =>
    <>(\/ sigints > 0
       \/ AnyFailed
       \/ (main_pc = "exited" /\ stop_event /\ AllReturned /\ sink_runs >= 1))

\* C2: with W word tasks that each run domain_count += 1 once per TLD and
\* nothing stopping them, the counter ends at W x N.
C2_NoLostUpdates ==
  (~args_auto /\ ~stop_event /\ \A t \in Futures : t_pc[t] = "done") =>
    domain_count = Len(words) * Len(tlds)

\* C3: at the end of a list run with no interrupt and no failed task, a candidate that was probed
\* and carries the target is in successful_domains exactly once and on
\* exactly one line of the file.
C3_MatchedOnce ==
  (~args_auto /\ sigints = 0 /\ ~AnyFailed /\ main_pc = "exited") =>
    \A t \in Futures : \A k \in 1..Len(probed[t]) :
      Carries(probed[t][k]) =>
        /\ Occurrences(successful_domains, probed[t][k]) = 1
        /\ Occurrences(out_file.lines, probed[t][k]) = 1

\* C4: print_final_output is never called while a pool thread is still
\* running a task.
C4_SinkAfterJoin ==
  [][sink_runs' # sink_runs => \A t \in TaskIds : ~Running(t)]_vars

\* C5: print_final_output runs once per process: never twice, and once by
\* the time the process ends.
C5_SinkOnce == sink_runs <= 1 /\ (main_pc = "exited" => sink_runs = 1)

\* C6: when the process ends, after one interrupt or none, every domain in
\* successful_domains is a line of the output file.
C6_MatchesPersisted ==
  (main_pc = "exited" /\ sigints <= 1) =>
    \A k \in 1..Len(successful_domains) :
      Occurrences(out_file.lines, successful_domains[k]) > 0

\* C7: a task starts a DNS query only from a stop check of its own that found
\* the flag unset, one query per check, so it issues at most one query
\* after the flag is set.
C7_QueryAfterCheck ==
  /\ [](\A t \in TaskIds : late[t] <= 1)
  /\ [][\A t \in TaskIds :
          /\ (t_pc'[t] = "fetch" /\ t_pc[t] # "fetch") =>
               (t_pc[t] = "check_txt" /\ ~stop_event)
          /\ probed'[t] # probed[t] /\ t_pc[t] # "while" =>
               (t_pc[t] = "fetch" /\ t_pc'[t] # "fetch")]_vars

\* C7's case: a task has issued a query with the flag already set
C7_Witness == \E t \in TaskIds : late[t] = 1 /\ Finished(t)

\* C8: once stop_event is set it stays set.
C8_StopOneWay == [][stop_event => stop_event']_vars

\* C8's case: a timed auto run set the flag (line 242 or 264), was never
\* interrupted, and went on to its end with the flag still set
C8_Witness ==
  stop_event /\ sigints = 0 /\ args_time # 0 /\ main_pc = "exited"

\* C9: when every worker has returned, domain_count is the number of DNS
\* queries issued.
C9_CountIsQueries == AllReturned => domain_count = queries

\* C10: no step makes domain_count smaller.
C10_CountNonDecreasing == [][domain_count' >= domain_count]_vars

Range(seq) == {seq[k] : k \in 1..Len(seq)}

Spaces(n) == [k \in 1..n |-> " "]

\* v is the target with blanks before and after it, and nothing else
TrimsTo(v, target) ==
  \E a \in 0..Len(v) : \E b \in 0..Len(v) :
    v = Spaces(a) \o target \o Spaces(b)

\* one of the strings fetched for d is the target once trimmed
FetchedMatch(d) ==
  /\ zone[d].raises = ""
  /\ \E v \in Range(fetch_txt_records(zone[d])) : TrimsTo(v, txt_record_to_check)

\* one of d's TXT records, its character strings joined, is the target once
\* trimmed
RecordMatch(d) ==
  /\ zone[d].raises = ""
  /\ \E k \in 1..Len(zone[d].answers) :
       TrimsTo(Flatten(zone[d].answers[k]), txt_record_to_check)

\* C11: no lookup failure ends a task, and while stop is unset an auto run
\* keeps all its W workers.
C11_LookupFailureAbsorbed ==
  /\ \A t \in TaskIds : t_pc[t] # "failed"
  /\ (args_auto /\ main_pc = "wait" /\ ~stop_event) =>
       \A t \in Futures : ~Finished(t)

\* C12: in a list run that nobody interrupts, a task that raised stops
\* neither its siblings nor the run: when main is left the sink has run
\* once and every task that did not raise has queried all its candidates.
C12_TaskFailureContained ==
  (~args_auto /\ sigints = 0 /\ main_pc \in {"finalize", "exited"}) =>
    /\ sink_runs = 1
    /\ \A t \in Futures :
         t_pc[t] # "failed" => Len(probed[t]) = Len(tlds)

\* C12's case: one word's task raised, the other queried both its
\* candidates, the sink ran
C12_Witness ==
  /\ ~args_auto /\ sigints = 0 /\ main_pc = "exited" /\ sink_runs = 1
  /\ \E t \in Futures : t_pc[t] = "failed"
  /\ \E t \in Futures : t_pc[t] = "done" /\ Len(probed[t]) = Len(tlds)

\* C13: after a SIGINT the flag is set and the run drains: every scheduled
\* task and the progress thread return, the sink has run, the process ends.
C13_InterruptDrains ==
  /\ [](sigints > 0 => stop_event /\ sink_runs >= 1)
  /\ (sigints > 0) ~>
       (/\ main_pc = "exited"
        /\ \A t \in TaskIds : t_pc[t] \in {"none", "done", "failed"}
        /\ count_pc \in {"none", "done"})

\* C13's case: interrupted with a query in flight, which returned, and the
\* process ended
C13_Witness ==
  /\ sigints = 1 /\ main_pc = "exited"
  /\ \E t \in TaskIds : late[t] = 1 /\ t_pc[t] = "done"

\* C14: a domain is in successful_domains exactly when it was queried and
\* one of the strings fetched for it is the target once trimmed; in an auto
\* run, where the record of earlier batches is not kept, every domain in
\* successful_domains has such a string and every queried domain with such
\* a string is in it.
C14_AppendIffMatch ==
  /\ \A d \in Range(successful_domains) :
       /\ FetchedMatch(d)
       /\ ~args_auto => \E t \in TaskIds : d \in Range(probed[t])
  /\ \A t \in TaskIds : \A d \in Range(probed[t]) :
       FetchedMatch(d) => d \in Range(successful_domains)

\* C14's case: a list run has queried a padded value, one in another case
\* and one with a blank more inside; only the first is a match
C14_Witness ==
  /\ ~args_auto /\ main_pc = "exited"
  /\ zone["acme.se"] = Padded /\ zone["acme.com"] = Upper /\ zone["foo.se"] = Spaced
  /\ \A t \in Futures : Len(probed[t]) = Len(tlds)
  /\ "acme.se" \in Range(successful_domains)
  /\ "acme.com" \notin Range(successful_domains)
  /\ "foo.se" \notin Range(successful_domains)

\* C15: a queried domain is a match exactly when one of its TXT records,
\* its character strings joined into one, is the target once trimmed.
C15_StringPerRecord ==
  \A t \in TaskIds : \A d \in Range(probed[t]) :
    Len(fetch_txt_records(zone[d])) = Len(zone[d].answers)
    /\ (RecordMatch(d) <=> d \in Range(successful_domains))


\* C16: a call of print_final_output with successful_domains empty leaves
\* the output file as it was, absent or with its old lines; a call with it
\* non-empty leaves the file holding exactly successful_domains, in order;
\* nothing else touches the file.
C16_SinkFile ==
  [][/\ sink_runs' # sink_runs =>
          IF successful_domains = << >>
            THEN out_file' = out_file
            ELSE out_file' = File(successful_domains)
     /\ out_file' # out_file => sink_runs' # sink_runs]_vars

\* C16's case: the sink ran with nothing matched and the file of an earlier
\* run is still there
C16_Witness ==
  /\ main_pc = "exited" /\ sink_runs = 1 /\ successful_domains = << >>
  /\ out_file = File(<< "old.dk" >>)

\* C17: the first result main reads in a list run is truthy exactly when
\* the task it comes from matched one of its own candidates.
C17_OwnSuccess ==
  [][\A f \in Futures :
       (/\ ~args_auto /\ main_pc = "wait" /\ ~stop_event /\ ~found_any
        /\ f \notin yielded /\ f \in yielded' /\ t_pc[f] = "done") =>
         (found_any' <=> \E d \in Range(probed[f]) : FetchedMatch(d))]_vars

\* C18: the queries of a word-task or batch follow the order of tlds with
\* none left out, and a task about to query candidate i has finished the
\* i - 1 before it.
C18_TldOrder ==
  \A t \in TaskIds :
    /\ Len(probed[t]) <= Len(tlds)
    /\ \A k \in 1..Len(probed[t]) : probed[t][k] = t_word[t] \o tlds[k]
    /\ t_pc[t] = "fetch" => Len(probed[t]) = t_idx[t] - 1

\* C18's case: a task about to query its second candidate
C18_Witness ==
  \E t \in TaskIds :
    /\ t_pc[t] = "fetch" /\ t_idx[t] = 2
    /\ probed[t] = << t_word[t] \o tlds[1] >>

\* C19: the progress thread returns only with stop_event set, renders no
\* more once it has returned, and returns once stop_event is set.
C19_ReporterExit ==
  /\ [][(count_pc # "done" /\ count_pc' = "done") => stop_event]_vars
  /\ [][count_pc = "done" => count_pc' = "done"]_vars
  /\ (stop_event /\ count_pc # "none") ~> (count_pc = "done")

\* C19's case: main set the flag at line 264 and the thread returned
C19_Witness == sigints = 0 /\ stop_event /\ count_pc = "done"

\* C20: in a list run with no SIGINT and no lookup raising past line 125,
\* when the sink has run every word's task has queried each of its
\* candidates once, and every candidate with the target is in
\* successful_domains.
C20_AllProbedBeforeSink ==
  (/\ ~args_auto /\ sigints = 0 /\ sink_runs >= 1
   /\ \A d \in Domains : ~Uncaught(zone[d])) =>
    /\ queries = Len(words) * Len(tlds)
    /\ \A i \in 1..Len(words) :
         /\ probed[i] = [k \in 1..Len(tlds) |-> words[i] \o tlds[k]]
         /\ \A d \in Range(probed[i]) :
              FetchedMatch(d) => d \in Range(successful_domains)

\* C20's case: such a run ended with a match
C20_Witness ==
  /\ ~args_auto /\ sigints = 0 /\ main_pc = "exited" /\ sink_runs = 1
  /\ \A d \in Domains : ~Uncaught(zone[d])
  /\ queries = Len(words) * Len(tlds)
  /\ successful_domains # << >>

=============================================================================
